---- MODULE Spec2Model ----
(***************************************************************************)
(* Model of kpq.KeyedPriorityQueue (src/kpq/keyed_priority_queue.go): an   *)
(* indexed binary heap made of the position map pm, its inverse im and the *)
(* priority values vals, ordered by a comparison function cmp.             *)
(*                                                                         *)
(* Slots are 0-based as in the source: pm is a function on 0..len(pm)-1,   *)
(* im and vals are functions whose domain is the set of keys of the map.   *)
(* Keys and values are Go ints; 0 is the zero value returned together      *)
(* with ok = false.                                                        *)
(***************************************************************************)
EXTENDS Integers, Sequences, FiniteSets, TLC

\* Bounds of the model: keys are 1..MaxKey, priority values are 1..MaxVal.
MaxKey == 4
MaxVal == 3

Keys == 1..MaxKey
Vals == 1..MaxVal

\* The comparison functions the queue is constructed with: the min-first
\* and max-first orders of the tests and examples, and a strict weak order
\* under which distinct values tie (2 and 3 are equivalent).
CmpNames == {"lt", "gt", "half"}

VARIABLES pm, im, vals, cmp, last, phase, pushed, out, mu, th, abs, moved

vars == <<pm, im, vals, cmp, last, phase, pushed, out, mu, th, abs, moved>>

----------------------------------------------------------------------------
\* Containers

\* The empty slice / the empty map.
Empty == [x \in {} |-> 0]

\* len of a slice or a map.
len(m) == Cardinality(DOMAIN m)

\* m[k] = v on a Go map: inserts k when it is absent.
MapSet(m, k, v) == [x \in (DOMAIN m) \cup {k} |-> IF x = k THEN v ELSE m[x]]

\* delete(m, k) on a Go map: a no-op when k is absent.
MapDelete(m, k) == [x \in (DOMAIN m) \ {k} |-> m[x]]

\* append(s, k) on a slice.
Append0(s, k) == [x \in 0..len(s) |-> IF x = len(s) THEN k ELSE s[x]]

\* s[:n] on a slice.
Truncate(s, n) == [x \in 0..(n - 1) |-> s[x]]

\* Go's integer division truncates toward zero.
GoDiv(a, b) == IF a >= 0 THEN a \div b ELSE -((-a) \div b)

\* The queue the code reads and writes, as one value.
Queue == [pm |-> pm, im |-> im, vals |-> vals, cmp |-> cmp]

----------------------------------------------------------------------------
\* Heap algorithms

\* The caller's comparison function: CmpFunc(c, x, y) is "x has priority over y".
CmpFunc(c, x, y) ==
    CASE c = "lt"   -> x < y
      [] c = "gt"   -> x > y
      [] c = "half" -> (x \div 2) < (y \div 2)

leftChild(i) == (i * 2) + 1

parent(i) == GoDiv(i - 1, 2)

compare(q, i, j) == CmpFunc(q.cmp, q.vals[q.pm[i]], q.vals[q.pm[j]])

\* swap that exchanges the slots and leaves the inverse map alone.
swap_pmOnly(q, i, j) ==
    [q EXCEPT !.pm = [q.pm EXCEPT ![i] = q.pm[j], ![j] = q.pm[i]]]

swap(q, i, j) ==
    LET pm2 == [q.pm EXCEPT ![i] = q.pm[j], ![j] = q.pm[i]]
        im2 == MapSet(MapSet(q.im, pm2[i], i), pm2[j], j)
    IN  [q EXCEPT !.pm = pm2, !.im = im2]

\* swim that climbs one level only (an if in place of the for).
swim_once(q, i) ==
    IF i > 0 /\ compare(q, i, parent(i))
    THEN swap(q, i, parent(i))
    ELSE q

RECURSIVE swim(_, _)
swim(q, i) ==
    IF i > 0 /\ compare(q, i, parent(i))
    THEN swim(swap(q, i, parent(i)), parent(i))
    ELSE q

RECURSIVE sink(_, _, _)

\* sink that also swaps a child that merely ties with its parent.
sink_orEqual(q, i, n) ==
    IF ~(leftChild(i) < n) THEN q
    ELSE LET l == leftChild(i)
         IN  IF l < 0 THEN q
             ELSE LET r == l + 1
                      j == IF r < n /\ compare(q, r, l) THEN r ELSE l
                  IN  IF compare(q, i, j) THEN q
                      ELSE sink(swap(q, i, j), j, n)

\* sink that never looks at the right child.
sink_leftOnly(q, i, n) ==
    IF ~(leftChild(i) < n) THEN q
    ELSE LET l == leftChild(i)
         IN  IF l < 0 THEN q
             ELSE IF ~compare(q, l, i) THEN q
                  ELSE sink(swap(q, i, l), l, n)

sink(q, i, n) ==
    IF ~(leftChild(i) < n) THEN q
    ELSE LET l == leftChild(i)
         IN  IF l < 0 THEN q
             ELSE LET r == l + 1
                      j == IF r < n /\ compare(q, r, l) THEN r ELSE l
                  IN  IF ~compare(q, j, i) THEN q
                      ELSE sink(swap(q, i, j), j, n)

----------------------------------------------------------------------------
\* Operations, as functions from the queue to the new queue and the results

\* push that stores the zero value in place of v.
push_zeroVal(q, k, v) ==
    IF k \in DOMAIN q.im
    THEN [q |-> q, err |-> "KeyAlreadyExistsError", key |-> k]
    ELSE LET n  == len(q.pm)
             q1 == [q EXCEPT !.pm = Append0(q.pm, k),
                             !.im = MapSet(q.im, k, n),
                             !.vals = MapSet(q.vals, k, 0)]
         IN  [q |-> swim(q1, n), err |-> "nil", key |-> 0]

\* push that stores the value before it looks for the key.
push_storeFirst(q, k, v) ==
    LET q0 == [q EXCEPT !.vals = MapSet(q.vals, k, v)]
    IN  IF k \in DOMAIN q.im
        THEN [q |-> q0, err |-> "KeyAlreadyExistsError", key |-> k]
        ELSE LET n  == len(q.pm)
                 q1 == [q0 EXCEPT !.pm = Append0(q.pm, k),
                                  !.im = MapSet(q.im, k, n)]
             IN  [q |-> swim(q1, n), err |-> "nil", key |-> 0]

push(q, k, v) ==
    IF k \in DOMAIN q.im
    THEN [q |-> q, err |-> "KeyAlreadyExistsError", key |-> k]
    ELSE LET n  == len(q.pm)
             q1 == [q EXCEPT !.pm = Append0(q.pm, k),
                             !.im = MapSet(q.im, k, n),
                             !.vals = MapSet(q.vals, k, v)]
         IN  [q |-> swim(q1, n), err |-> "nil", key |-> 0]

\* pop that reports ok on an empty queue.
pop_okEmpty(q) ==
    IF len(q.pm) = 0
    THEN [q |-> q, k |-> 0, v |-> 0, ok |-> TRUE]
    ELSE LET n  == len(q.pm) - 1
             k  == q.pm[0]
             v  == q.vals[k]
             q1 == sink(swap(q, 0, n), 0, n)
             q2 == [q1 EXCEPT !.pm = Truncate(q1.pm, n),
                              !.im = MapDelete(q1.im, k),
                              !.vals = MapDelete(q1.vals, k)]
         IN  [q |-> q2, k |-> k, v |-> v, ok |-> TRUE]

\* pop that leaves the popped key in the inverse map.
pop_keepIm(q) ==
    IF len(q.pm) = 0
    THEN [q |-> q, k |-> 0, v |-> 0, ok |-> FALSE]
    ELSE LET n  == len(q.pm) - 1
             k  == q.pm[0]
             v  == q.vals[k]
             q1 == sink(swap(q, 0, n), 0, n)
             q2 == [q1 EXCEPT !.pm = Truncate(q1.pm, n),
                              !.vals = MapDelete(q1.vals, k)]
         IN  [q |-> q2, k |-> k, v |-> v, ok |-> TRUE]

pop(q) ==
    IF len(q.pm) = 0
    THEN [q |-> q, k |-> 0, v |-> 0, ok |-> FALSE]
    ELSE LET n  == len(q.pm) - 1
             k  == q.pm[0]
             v  == q.vals[k]
             q1 == sink(swap(q, 0, n), 0, n)
             q2 == [q1 EXCEPT !.pm = Truncate(q1.pm, n),
                              !.im = MapDelete(q1.im, k),
                              !.vals = MapDelete(q1.vals, k)]
         IN  [q |-> q2, k |-> k, v |-> v, ok |-> TRUE]

\* update that stores the value before it looks for the key.
update_storeFirst(q, k, v) ==
    LET q1 == [q EXCEPT !.vals = MapSet(q.vals, k, v)]
    IN  IF k \notin DOMAIN q.im
        THEN [q |-> q1, err |-> "KeyNotFoundError", key |-> k]
        ELSE LET i  == q.im[k]
                 q2 == swim(q1, i)
             IN  [q |-> sink(q2, i, len(q2.vals)), err |-> "nil", key |-> 0]

\* update that restores the order without storing the new value.
update_noStore(q, k, v) ==
    IF k \notin DOMAIN q.im
    THEN [q |-> q, err |-> "KeyNotFoundError", key |-> k]
    ELSE LET i  == q.im[k]
             q2 == swim(q, i)
         IN  [q |-> sink(q2, i, len(q2.vals)), err |-> "nil", key |-> 0]

\* update that only swims.
update_noSink(q, k, v) ==
    IF k \notin DOMAIN q.im
    THEN [q |-> q, err |-> "KeyNotFoundError", key |-> k]
    ELSE LET i  == q.im[k]
             q1 == [q EXCEPT !.vals = MapSet(q.vals, k, v)]
         IN  [q |-> swim(q1, i), err |-> "nil", key |-> 0]

update(q, k, v) ==
    IF k \notin DOMAIN q.im
    THEN [q |-> q, err |-> "KeyNotFoundError", key |-> k]
    ELSE LET i  == q.im[k]
             q1 == [q EXCEPT !.vals = MapSet(q.vals, k, v)]
             q2 == swim(q1, i)
         IN  [q |-> sink(q2, i, len(q2.vals)), err |-> "nil", key |-> 0]

\* remove that does not sink the entry it moved into the freed slot.
remove_noSink(q, k) ==
    IF k \notin DOMAIN q.im
    THEN q
    ELSE LET i  == q.im[k]
             n  == len(q.pm) - 1
             q1 == IF i # n THEN swim(swap(q, i, n), i) ELSE q
         IN  [q1 EXCEPT !.pm = Truncate(q1.pm, n),
                        !.im = MapDelete(q1.im, k),
                        !.vals = MapDelete(q1.vals, k)]

\* remove that does not look at ok: an absent key reads slot 0 from im.
remove_noCheck(q, k) ==
    LET i  == IF k \in DOMAIN q.im THEN q.im[k] ELSE 0
        n  == len(q.pm) - 1
        q1 == IF i # n THEN swim(sink(swap(q, i, n), i, n), i) ELSE q
    IN  IF n < 0 THEN q
        ELSE [q1 EXCEPT !.pm = Truncate(q1.pm, n),
                        !.im = MapDelete(q1.im, k),
                        !.vals = MapDelete(q1.vals, k)]

remove(q, k) ==
    IF k \notin DOMAIN q.im
    THEN q
    ELSE LET i  == q.im[k]
             n  == len(q.pm) - 1
             q1 == IF i # n THEN swim(sink(swap(q, i, n), i, n), i) ELSE q
         IN  [q1 EXCEPT !.pm = Truncate(q1.pm, n),
                        !.im = MapDelete(q1.im, k),
                        !.vals = MapDelete(q1.vals, k)]

\* peek that reads the last slot.
peek_last(q) ==
    IF len(q.pm) = 0
    THEN [k |-> 0, v |-> 0, ok |-> FALSE]
    ELSE [k |-> q.pm[len(q.pm) - 1], v |-> q.vals[q.pm[len(q.pm) - 1]], ok |-> TRUE]

peek(q) ==
    IF len(q.pm) = 0
    THEN [k |-> 0, v |-> 0, ok |-> FALSE]
    ELSE [k |-> q.pm[0], v |-> q.vals[q.pm[0]], ok |-> TRUE]

peekKey(q) ==
    IF len(q.pm) = 0
    THEN [k |-> 0, ok |-> FALSE]
    ELSE [k |-> q.pm[0], ok |-> TRUE]

peekValue(q) ==
    IF len(q.pm) = 0
    THEN [v |-> 0, ok |-> FALSE]
    ELSE [v |-> q.vals[q.pm[0]], ok |-> TRUE]

contains(q, k) == k \in DOMAIN q.im

valueOf(q, k) ==
    IF k \in DOMAIN q.vals
    THEN [v |-> q.vals[k], ok |-> TRUE]
    ELSE [v |-> 0, ok |-> FALSE]

\* The two sift calls of Update, observed: the queue Update returns and
\* whether swim and sink each swapped.
siftUpdate(q, k, v) ==
    IF k \notin DOMAIN q.im
    THEN [q |-> q, swim |-> FALSE, sink |-> FALSE]
    ELSE LET i  == q.im[k]
             q1 == [q EXCEPT !.vals = MapSet(q.vals, k, v)]
             q2 == swim(q1, i)
             q3 == sink(q2, i, len(q2.vals))
         IN  [q |-> q3, swim |-> q2.pm # q1.pm, sink |-> q3.pm # q2.pm]

\* The two sift calls of Remove, observed.
siftRemove(q, k) ==
    IF k \notin DOMAIN q.im
    THEN [q |-> q, swim |-> FALSE, sink |-> FALSE]
    ELSE LET i  == q.im[k]
             n  == len(q.pm) - 1
             q1 == IF i # n THEN swap(q, i, n) ELSE q
             q2 == IF i # n THEN sink(q1, i, n) ELSE q1
             q3 == IF i # n THEN swim(q2, i) ELSE q2
         IN  [q |-> [q3 EXCEPT !.pm = Truncate(q3.pm, n),
                               !.im = MapDelete(q3.im, k),
                               !.vals = MapDelete(q3.vals, k)],
              swim |-> q3.pm # q2.pm, sink |-> q2.pm # q1.pm]

Len_(q) == len(q.pm)

isEmpty(q) == len(q.pm) = 0

----------------------------------------------------------------------------
\* The state machine: one action per public method, taken by a caller that
\* makes one call at a time.  last records the call that has just returned:
\* its name, its arguments k and v, its results (err, ok, rk, rv, n) and the
\* queue it was called on (pre).  Return is the caller taking the results;
\* the next call starts from there.

NoQueue == [pm |-> Empty, im |-> Empty, vals |-> Empty, cmp |-> "lt"]

Idle ==
    [op |-> "idle", k |-> 0, v |-> 0, err |-> "nil", ok |-> TRUE, rk |-> 0,
     rv |-> 0, n |-> 0, pre |-> NoQueue]

Call(op, k, v, err, ok, rk, rv, n) ==
    [op |-> op, k |-> k, v |-> v, err |-> err, ok |-> ok, rk |-> rk,
     rv |-> rv, n |-> n, pre |-> Queue]

Store(q) ==
    /\ pm' = q.pm
    /\ im' = q.im
    /\ vals' = q.vals
    /\ UNCHANGED cmp

\* The variables of the concurrent callers (mu, th, abs) and of the sift
\* observation (moved), where there is one caller and nothing is observed.
NoThreads ==
    /\ mu = [w |-> 0, pend |-> 0, r |-> {}]
    /\ th = Empty
    /\ abs = NoQueue
    /\ moved = [swim |-> FALSE, sink |-> FALSE]

NewKeyedPriorityQueue(c) ==
    /\ pm = Empty
    /\ im = Empty
    /\ vals = Empty
    /\ cmp = c

Init ==
    /\ \E c \in CmpNames : NewKeyedPriorityQueue(c)
    /\ last = Idle
    /\ phase = "api"
    /\ pushed = {}
    /\ out = << >>
    /\ NoThreads

Push ==
    /\ last.op = "idle"
    /\ \E k \in Keys, v \in Vals :
        LET r == push(Queue, k, v)
        IN  /\ Store(r.q)
            /\ last' = Call("Push", k, v, r.err, r.err = "nil", r.key, 0, 0)
    /\ UNCHANGED <<phase, pushed, out, mu, th, abs, moved>>

Pop ==
    /\ last.op = "idle"
    /\ LET r == pop(Queue)
       IN  /\ Store(r.q)
           /\ last' = Call("Pop", 0, 0, "nil", r.ok, r.k, r.v, 0)
    /\ UNCHANGED <<phase, pushed, out, mu, th, abs, moved>>

Update ==
    /\ last.op = "idle"
    /\ \E k \in Keys, v \in Vals :
        LET r == update(Queue, k, v)
        IN  /\ Store(r.q)
            /\ last' = Call("Update", k, v, r.err, r.err = "nil", r.key, 0, 0)
    /\ UNCHANGED <<phase, pushed, out, mu, th, abs, moved>>

Remove ==
    /\ last.op = "idle"
    /\ \E k \in Keys :
        /\ Store(remove(Queue, k))
        /\ last' = Call("Remove", k, 0, "nil", TRUE, 0, 0, 0)
    /\ UNCHANGED <<phase, pushed, out, mu, th, abs, moved>>

Peek ==
    /\ last.op = "idle"
    /\ LET r == peek(Queue)
       IN  last' = Call("Peek", 0, 0, "nil", r.ok, r.k, r.v, 0)
    /\ UNCHANGED <<pm, im, vals, cmp, phase, pushed, out, mu, th, abs, moved>>

PeekKey ==
    /\ last.op = "idle"
    /\ LET r == peekKey(Queue)
       IN  last' = Call("PeekKey", 0, 0, "nil", r.ok, r.k, 0, 0)
    /\ UNCHANGED <<pm, im, vals, cmp, phase, pushed, out, mu, th, abs, moved>>

PeekValue ==
    /\ last.op = "idle"
    /\ LET r == peekValue(Queue)
       IN  last' = Call("PeekValue", 0, 0, "nil", r.ok, 0, r.v, 0)
    /\ UNCHANGED <<pm, im, vals, cmp, phase, pushed, out, mu, th, abs, moved>>

Contains ==
    /\ last.op = "idle"
    /\ \E k \in Keys :
        last' = Call("Contains", k, 0, "nil", contains(Queue, k), 0, 0, 0)
    /\ UNCHANGED <<pm, im, vals, cmp, phase, pushed, out, mu, th, abs, moved>>

ValueOf ==
    /\ last.op = "idle"
    /\ \E k \in Keys :
        LET r == valueOf(Queue, k)
        IN  last' = Call("ValueOf", k, 0, "nil", r.ok, 0, r.v, 0)
    /\ UNCHANGED <<pm, im, vals, cmp, phase, pushed, out, mu, th, abs, moved>>

Len_op ==
    /\ last.op = "idle"
    /\ last' = Call("Len", 0, 0, "nil", TRUE, 0, 0, Len_(Queue))
    /\ UNCHANGED <<pm, im, vals, cmp, phase, pushed, out, mu, th, abs, moved>>

IsEmpty ==
    /\ last.op = "idle"
    /\ last' = Call("IsEmpty", 0, 0, "nil", isEmpty(Queue), 0, 0, 0)
    /\ UNCHANGED <<pm, im, vals, cmp, phase, pushed, out, mu, th, abs, moved>>

Return ==
    /\ last.op # "idle"
    /\ last' = Idle
    /\ UNCHANGED <<pm, im, vals, cmp, phase, pushed, out, mu, th, abs, moved>>

Next ==
    \/ Push
    \/ Pop
    \/ Update
    \/ Remove
    \/ Peek
    \/ PeekKey
    \/ PeekValue
    \/ Contains
    \/ ValueOf
    \/ Len_op
    \/ IsEmpty
    \/ Return

Spec == Init /\ [][Next]_vars

----------------------------------------------------------------------------
\* Extraction order: n keys with pairwise distinct priorities are pushed on
\* an empty queue, in any order, and the queue is then popped until Pop
\* reports that it is empty.  The priorities are drawn from as many values
\* as there are keys.  pushed is the set of pairs pushed, out the pairs
\* popped, in order.

Prios == 1..MaxKey

Distinct(c, x, y) == CmpFunc(c, x, y) \/ CmpFunc(c, y, x)

InitOrder ==
    /\ \E c \in CmpNames : NewKeyedPriorityQueue(c)
    /\ last = Idle
    /\ phase = "push"
    /\ pushed = {}
    /\ out = << >>
    /\ NoThreads

PushDistinct ==
    /\ phase = "push"
    /\ \E k \in Keys \ DOMAIN im, v \in Prios :
        /\ \A k2 \in DOMAIN vals : Distinct(cmp, v, vals[k2])
        /\ LET r == push(Queue, k, v)
           IN  /\ Store(r.q)
               /\ last' = Call("Push", k, v, r.err, r.err = "nil", r.key, 0, 0)
        /\ pushed' = pushed \cup {<<k, v>>}
    /\ UNCHANGED <<phase, out, mu, th, abs, moved>>

StartPop ==
    /\ phase = "push"
    /\ phase' = "pop"
    /\ UNCHANGED <<pm, im, vals, cmp, last, pushed, out, mu, th, abs, moved>>

PopNext ==
    /\ phase = "pop"
    /\ LET r == pop(Queue)
       IN  /\ Store(r.q)
           /\ last' = Call("Pop", 0, 0, "nil", r.ok, r.k, r.v, 0)
           /\ out' = IF r.ok THEN Append(out, <<r.k, r.v>>) ELSE out
           /\ phase' = IF r.ok THEN "pop" ELSE "done"
    /\ UNCHANGED <<pushed, mu, th, abs, moved>>

NextOrder ==
    \/ PushDistinct
    \/ StartPop
    \/ PopNext

SpecOrder == InitOrder /\ [][NextOrder]_vars

----------------------------------------------------------------------------
\* Sifting: one Update or one Remove on any heap of up to MaxHeap entries.
\* Every such heap is one the program reaches: pushing the keys 1..n in
\* slot order with values that satisfy the heap property appends each key
\* and swims none.  moved tells which of the two sift calls swapped.

MaxHeap == 6

HeapKeys == 1..MaxHeap

IsHeap(c, vs) ==
    \A i \in DOMAIN vs : i > 0 => ~CmpFunc(c, vs[i], vs[parent(i)])

InitSift ==
    /\ \E c \in CmpNames, n \in 0..MaxHeap :
        \E vs \in [0..(n - 1) -> Vals] :
            /\ IsHeap(c, vs)
            /\ pm = [i \in 0..(n - 1) |-> i + 1]
            /\ im = [k \in 1..n |-> k - 1]
            /\ vals = [k \in 1..n |-> vs[k - 1]]
            /\ cmp = c
    /\ last = Idle
    /\ phase = "api"
    /\ pushed = {}
    /\ out = << >>
    /\ NoThreads

UpdateSift ==
    /\ last.op = "idle"
    /\ \E k \in HeapKeys, v \in Vals :
        LET r == update(Queue, k, v)
            s == siftUpdate(Queue, k, v)
        IN  /\ Store(r.q)
            /\ last' = Call("Update", k, v, r.err, r.err = "nil", r.key, 0, 0)
            /\ moved' = [swim |-> s.swim, sink |-> s.sink]
    /\ UNCHANGED <<phase, pushed, out, mu, th, abs>>

RemoveSift ==
    /\ last.op = "idle"
    /\ \E k \in HeapKeys :
        LET s == siftRemove(Queue, k)
        IN  /\ Store(remove(Queue, k))
            /\ last' = Call("Remove", k, 0, "nil", TRUE, 0, 0, 0)
            /\ moved' = [swim |-> s.swim, sink |-> s.sink]
    /\ UNCHANGED <<phase, pushed, out, mu, th, abs>>

NextSift ==
    \/ UpdateSift
    \/ RemoveSift

SpecSift == InitSift /\ [][NextSift]_vars

----------------------------------------------------------------------------
\* Construction: the program calls NewKeyedPriorityQueue with a comparison
\* function or with nil, and then uses the queue it got.  A panic ends the
\* program: nothing is called after it.

\* NewKeyedPriorityQueue that does not look at cmp.
newKeyedPriorityQueue_noCheck(c) ==
    [panic |-> FALSE,
     q |-> [pm |-> Empty, im |-> Empty, vals |-> Empty, cmp |-> c]]

newKeyedPriorityQueue(c) ==
    IF c = "nil"
    THEN [panic |-> TRUE, q |-> NoQueue]
    ELSE [panic |-> FALSE,
          q |-> [pm |-> Empty, im |-> Empty, vals |-> Empty, cmp |-> c]]

InitNew ==
    /\ pm = Empty
    /\ im = Empty
    /\ vals = Empty
    /\ cmp = "nil"
    /\ last = Idle
    /\ phase = "new"
    /\ pushed = {}
    /\ out = << >>
    /\ NoThreads

Construct ==
    /\ phase = "new"
    /\ \E c \in CmpNames \cup {"nil"} :
        LET r == newKeyedPriorityQueue(c)
        IN  IF r.panic
            THEN /\ phase' = "panic"
                 /\ last' = Call("New", c, 0, "panic", FALSE, 0, 0, 0)
                 /\ UNCHANGED <<pm, im, vals, cmp>>
            ELSE /\ phase' = "api"
                 /\ last' = Call("New", c, 0, "nil", TRUE, 0, 0, 0)
                 /\ pm' = r.q.pm
                 /\ im' = r.q.im
                 /\ vals' = r.q.vals
                 /\ cmp' = r.q.cmp
    /\ UNCHANGED <<pushed, out, mu, th, abs, moved>>

NextNew ==
    \/ Construct
    \/ (phase = "api" /\ Next)

SpecNew == InitNew /\ [][NextNew]_vars

----------------------------------------------------------------------------
\* An arbitrary comparison function: each call of cmp may answer true or
\* false, whatever it answered before.  swim, sink and the methods are then
\* relations: each gives the set of queues that some answers of cmp lead
\* to.  The field oob of a queue tells that a slot outside pm was indexed,
\* which panics and ends the program.  abs.vals is what the calls made so
\* far should have left: the keys whose Push succeeded and that were not
\* popped or removed since, each with the last value pushed or updated.

QueueAny == [pm |-> pm, im |-> im, vals |-> vals, cmp |-> cmp, oob |-> FALSE]

InRange(q, i) == i \in DOMAIN q.pm

OutOfRange(q) == [q EXCEPT !.oob = TRUE]

RECURSIVE swimAny(_, _)
swimAny(q, i) ==
    IF ~(i > 0) THEN {q}
    ELSE IF ~(InRange(q, i) /\ InRange(q, parent(i))) THEN {OutOfRange(q)}
    ELSE {q} \cup swimAny(swap(q, i, parent(i)), parent(i))

RECURSIVE sinkAny(_, _, _)

\* sink that looks at the right child without comparing it with n.
sinkAny_noBound(q, i, n) ==
    IF ~(leftChild(i) < n) THEN {q}
    ELSE LET l == leftChild(i)
         IN  IF l < 0 THEN {q}
             ELSE LET r  == l + 1
                      js == IF ~InRange(q, r) THEN {l} ELSE {l, r}
                  IN  UNION { {q} \cup sinkAny(swap(q, i, j), j, n) : j \in js }

sinkAny(q, i, n) ==
    IF ~(leftChild(i) < n) THEN {q}
    ELSE LET l == leftChild(i)
         IN  IF l < 0 THEN {q}
             ELSE LET r  == l + 1
                      js == IF r < n THEN {l, r} ELSE {l}
                  IN  IF ~(\A j \in js \cup {i} : InRange(q, j))
                      THEN {OutOfRange(q)}
                      ELSE UNION { {q} \cup sinkAny(swap(q, i, j), j, n) : j \in js }

\* Of the queues qs, those where the call panicked, and those where it
\* goes on.
Panicked(qs) == {q \in qs : q.oob}

Running(qs) == {q \in qs : ~q.oob}

pushAny(q, k, v) ==
    IF k \in DOMAIN q.im
    THEN {[q |-> q, err |-> "KeyAlreadyExistsError"]}
    ELSE LET n  == len(q.pm)
             q1 == [q EXCEPT !.pm = Append0(q.pm, k),
                             !.im = MapSet(q.im, k, n),
                             !.vals = MapSet(q.vals, k, v)]
         IN  {[q |-> q2, err |-> "nil"] : q2 \in swimAny(q1, n)}

popAny(q) ==
    IF len(q.pm) = 0
    THEN {[q |-> q, k |-> 0, v |-> 0, ok |-> FALSE]}
    ELSE LET n  == len(q.pm) - 1
             k  == q.pm[0]
             v  == q.vals[k]
             s  == sinkAny(swap(q, 0, n), 0, n)
             End(q1) == {[q1 EXCEPT !.pm = Truncate(q1.pm, n),
                                    !.im = MapDelete(q1.im, k),
                                    !.vals = MapDelete(q1.vals, k)]}
         IN  {[q |-> q2, k |-> k, v |-> v, ok |-> TRUE] :
                 q2 \in Panicked(s) \cup UNION {End(q1) : q1 \in Running(s)}}

updateAny(q, k, v) ==
    IF k \notin DOMAIN q.im
    THEN {[q |-> q, err |-> "KeyNotFoundError"]}
    ELSE LET i  == q.im[k]
             q1 == [q EXCEPT !.vals = MapSet(q.vals, k, v)]
             s  == swimAny(q1, i)
         IN  {[q |-> q3, err |-> "nil"] :
                 q3 \in Panicked(s) \cup
                        UNION {sinkAny(q2, i, len(q2.vals)) : q2 \in Running(s)}}

removeAny(q, k) ==
    IF k \notin DOMAIN q.im
    THEN {q}
    ELSE LET i  == q.im[k]
             n  == len(q.pm) - 1
             s1 == sinkAny(swap(q, i, n), i, n)
             s2 == Panicked(s1) \cup UNION {swimAny(q2, i) : q2 \in Running(s1)}
             End(q1) == {[q1 EXCEPT !.pm = Truncate(q1.pm, n),
                                    !.im = MapDelete(q1.im, k),
                                    !.vals = MapDelete(q1.vals, k)]}
         IN  IF i # n
             THEN Panicked(s2) \cup UNION {End(q1) : q1 \in Running(s2)}
             ELSE End(q)

StoreAny(q) ==
    /\ pm' = q.pm
    /\ im' = q.im
    /\ vals' = q.vals
    /\ phase' = IF q.oob THEN "panic" ELSE phase
    /\ UNCHANGED <<cmp, last, pushed, out, mu, th, moved>>

InitAny ==
    /\ NewKeyedPriorityQueue("any")
    /\ last = Idle
    /\ phase = "api"
    /\ pushed = {}
    /\ out = << >>
    /\ mu = [w |-> 0, pend |-> 0, r |-> {}]
    /\ th = Empty
    /\ abs = [vals |-> Empty]
    /\ moved = [swim |-> FALSE, sink |-> FALSE]

PushAny ==
    /\ phase = "api"
    /\ \E k \in Keys, v \in Vals :
        \E r \in pushAny(QueueAny, k, v) :
            /\ StoreAny(r.q)
            /\ abs' = IF r.err = "nil"
                      THEN [abs EXCEPT !.vals = MapSet(abs.vals, k, v)]
                      ELSE abs

PopAny ==
    /\ phase = "api"
    /\ \E r \in popAny(QueueAny) :
        /\ StoreAny(r.q)
        /\ abs' = IF r.ok
                  THEN [abs EXCEPT !.vals = MapDelete(abs.vals, r.k)]
                  ELSE abs

UpdateAny ==
    /\ phase = "api"
    /\ \E k \in Keys, v \in Vals :
        \E r \in updateAny(QueueAny, k, v) :
            /\ StoreAny(r.q)
            /\ abs' = IF r.err = "nil"
                      THEN [abs EXCEPT !.vals = MapSet(abs.vals, k, v)]
                      ELSE abs

RemoveAny ==
    /\ phase = "api"
    /\ \E k \in Keys :
        \E q \in removeAny(QueueAny, k) :
            /\ StoreAny(q)
            /\ abs' = [abs EXCEPT !.vals = MapDelete(abs.vals, k)]

NextAny ==
    \/ PushAny
    \/ PopAny
    \/ UpdateAny
    \/ RemoveAny

SpecAny == InitAny /\ [][NextAny]_vars

----------------------------------------------------------------------------
\* Machine integers: int is a signed integer of IntBits bits whose
\* arithmetic wraps around, and a slice holds at most MaxInt entries.  One
\* Pop, Update or Remove runs on any heap of up to MaxInt entries, so that
\* slots i with 2i + 1 > MaxInt exist.  out is the sequence of the turns of
\* the loop of sink: the slot i and the bound n of the turn, the value l of
\* leftChild(i), the child slots kids at which the turn indexed pm, and the
\* slot to where the entry is after the turn.  phase is "panic" when a turn
\* indexed pm outside its slots.

IntBits == 4

MaxInt == 2 ^ (IntBits - 1) - 1

MinInt == -(2 ^ (IntBits - 1))

\* The int that the mathematical result x of an operation is stored as.
ToInt(x) == ((x - MinInt) % (2 ^ IntBits)) + MinInt

\* leftChild on ints.
leftChildInt(i) == ToInt(ToInt(i * 2) + 1)

Turn(i, n, l, kids, to) == [i |-> i, n |-> n, l |-> l, kids |-> kids, to |-> to]

RECURSIVE sinkInt(_, _, _)

\* sinkInt without the break on j < 0.
sinkInt_noGuard(q, i, n) ==
    LET l == leftChildInt(i)
    IN  IF ~(l < n)
        THEN [q |-> q, turns |-> <<Turn(i, n, l, {}, i)>>, oob |-> FALSE]
        ELSE LET r    == ToInt(l + 1)
                 kids == IF r < n THEN {l, r} ELSE {l}
             IN  IF ~(\A c \in kids : InRange(q, c))
                 THEN [q |-> q, turns |-> <<Turn(i, n, l, kids, i)>>, oob |-> TRUE]
                 ELSE LET j == IF r < n /\ compare(q, r, l) THEN r ELSE l
                      IN  IF ~compare(q, j, i)
                          THEN [q |-> q, turns |-> <<Turn(i, n, l, kids, i)>>,
                                oob |-> FALSE]
                          ELSE LET s == sinkInt(swap(q, i, j), j, n)
                               IN  [q |-> s.q,
                                    turns |-> <<Turn(i, n, l, kids, j)>> \o s.turns,
                                    oob |-> s.oob]

\* sink on ints: the queue it leaves, the turns of its loop, and oob when
\* it indexed pm outside its slots (a panic).
sinkInt(q, i, n) ==
    LET l == leftChildInt(i)
    IN  IF ~(l < n)
        THEN [q |-> q, turns |-> <<Turn(i, n, l, {}, i)>>, oob |-> FALSE]
        ELSE IF l < 0
        THEN [q |-> q, turns |-> <<Turn(i, n, l, {}, i)>>, oob |-> FALSE]
        ELSE LET r    == ToInt(l + 1)
                 kids == IF r < n THEN {l, r} ELSE {l}
             IN  IF ~(\A c \in kids : InRange(q, c))
                 THEN [q |-> q, turns |-> <<Turn(i, n, l, kids, i)>>, oob |-> TRUE]
                 ELSE LET j == IF r < n /\ compare(q, r, l) THEN r ELSE l
                      IN  IF ~compare(q, j, i)
                          THEN [q |-> q, turns |-> <<Turn(i, n, l, kids, i)>>,
                                oob |-> FALSE]
                          ELSE LET s == sinkInt(swap(q, i, j), j, n)
                               IN  [q |-> s.q,
                                    turns |-> <<Turn(i, n, l, kids, j)>> \o s.turns,
                                    oob |-> s.oob]

\* The end of Pop and of Remove, which a panic in sink does not reach.
dropInt(s, k, n) ==
    IF s.oob THEN s
    ELSE [s EXCEPT !.q = [s.q EXCEPT !.pm = Truncate(s.q.pm, n),
                                     !.im = MapDelete(s.q.im, k),
                                     !.vals = MapDelete(s.q.vals, k)]]

popInt(q) ==
    IF len(q.pm) = 0
    THEN [q |-> q, turns |-> << >>, oob |-> FALSE]
    ELSE LET n == ToInt(len(q.pm) - 1)
         IN  dropInt(sinkInt(swap(q, 0, n), 0, n), q.pm[0], n)

updateInt(q, k, v) ==
    IF k \notin DOMAIN q.im
    THEN [q |-> q, turns |-> << >>, oob |-> FALSE]
    ELSE LET i  == q.im[k]
             q1 == [q EXCEPT !.vals = MapSet(q.vals, k, v)]
         IN  sinkInt(swim(q1, i), i, len(q1.vals))

removeInt(q, k) ==
    IF k \notin DOMAIN q.im
    THEN [q |-> q, turns |-> << >>, oob |-> FALSE]
    ELSE LET i == q.im[k]
             n == ToInt(len(q.pm) - 1)
         IN  IF i # n
             THEN LET s == sinkInt(swap(q, i, n), i, n)
                  IN  dropInt(IF s.oob THEN s ELSE [s EXCEPT !.q = swim(s.q, i)], k, n)
             ELSE dropInt([q |-> q, turns |-> << >>, oob |-> FALSE], k, n)

IntKeys == 1..MaxInt

IntVals == {1, 2}

InitInt ==
    /\ \E c \in {"lt", "gt"}, n \in 0..MaxInt :
        \E vs \in [0..(n - 1) -> IntVals] :
            /\ IsHeap(c, vs)
            /\ pm = [i \in 0..(n - 1) |-> i + 1]
            /\ im = [k \in 1..n |-> k - 1]
            /\ vals = [k \in 1..n |-> vs[k - 1]]
            /\ cmp = c
    /\ last = Idle
    /\ phase = "api"
    /\ pushed = {}
    /\ out = << >>
    /\ NoThreads

StoreInt(s) ==
    /\ Store(s.q)
    /\ out' = s.turns
    /\ phase' = IF s.oob THEN "panic" ELSE phase
    /\ UNCHANGED <<pushed, mu, th, abs, moved>>

PopInt ==
    /\ last.op = "idle"
    /\ StoreInt(popInt(Queue))
    /\ last' = Call("Pop", 0, 0, "nil", len(pm) > 0, 0, 0, 0)

UpdateInt ==
    /\ last.op = "idle"
    /\ \E k \in IntKeys, v \in IntVals :
        /\ StoreInt(updateInt(Queue, k, v))
        /\ last' = Call("Update", k, v, "nil", k \in DOMAIN im, 0, 0, 0)

RemoveInt ==
    /\ last.op = "idle"
    /\ \E k \in IntKeys :
        /\ StoreInt(removeInt(Queue, k))
        /\ last' = Call("Remove", k, 0, "nil", TRUE, 0, 0, 0)

NextInt ==
    \/ PopInt
    \/ UpdateInt
    \/ RemoveInt

SpecInt == InitInt /\ [][NextInt]_vars

----------------------------------------------------------------------------
\* Concurrent callers.  Each thread calls one method at a time; the method
\* takes pq.mu, runs its statements one step at a time and releases pq.mu
\* when it returns.  th[t] holds the position pc of thread t and the locals
\* of the method it runs: the arguments k and v, i and n of the method, the
\* slot j of the swim or sink loop and the results ret.
\*
\* mu is the sync.RWMutex: w is the thread that holds it for writing, r the
\* threads that hold it for reading, and pend the writer that has announced
\* itself and waits for the readers to leave; while a writer holds the lock
\* or is pending, RLock blocks.
\*
\* Which method a thread runs, and its arguments, are recorded when the lock
\* is granted: nothing reads them before.  abs is an atomic queue that
\* executes each call in one step at that moment, and th[t].want the
\* results it gives.

MaxThread == 2
MaxCKey == 2
MaxCVal == 2

Threads == 1..MaxThread
CKeys == 1..MaxCKey
CVals == 1..MaxCVal

Methods ==
    {"Push", "Pop", "Update", "Remove", "Peek", "PeekKey", "PeekValue",
     "Contains", "ValueOf", "Len", "IsEmpty"}

\* Locks where Update takes the read lock.
Locks_updateShared(op) ==
    IF op \in {"Push", "Pop", "Remove"} THEN "Lock" ELSE "RLock"

\* Locks where Pop takes the read lock.
Locks_popShared(op) ==
    IF op \in {"Push", "Update", "Remove"} THEN "Lock" ELSE "RLock"

\* The lock call a method starts with.
Locks(op) ==
    IF op \in {"Push", "Pop", "Update", "Remove"} THEN "Lock" ELSE "RLock"

\* DeferredCall where Push has no deferred call.
DeferredCall_pushForgets(op) ==
    IF op = "Push" THEN "none"
    ELSE IF op \in {"Pop", "Update", "Remove"} THEN "Unlock" ELSE "RUnlock"

\* The call a method defers to its return.
DeferredCall(op) ==
    IF op \in {"Push", "Pop", "Update", "Remove"} THEN "Unlock" ELSE "RUnlock"

\* Lock can take the writers' mutex and announce the writer.
CanAnnounce(m) == m.w = 0 /\ m.pend = 0

\* The announced writer gets the lock once the readers have left.
CanLock(m) == m.r = {}

\* RLock gets the lock unless a writer holds it or is pending.
CanRLock(m) == m.w = 0 /\ m.pend = 0

Res(err, ok, k, v, n) == [err |-> err, ok |-> ok, k |-> k, v |-> v, n |-> n]

NoRes == Res("nil", FALSE, 0, 0, 0)

IdleThread ==
    [pc |-> "idle", mode |-> "none", op |-> "none", k |-> 0, v |-> 0, i |-> 0,
     j |-> 0, n |-> 0, ret |-> NoRes, want |-> NoRes]

\* The results of method op with arguments k and v on the queue q, and the
\* queue it leaves, when the method runs alone.
Atomic(q, op, k, v) ==
    CASE op = "Push" ->
            LET r == push(q, k, v)
            IN  [q |-> r.q, res |-> Res(r.err, r.err = "nil", r.key, 0, 0)]
      [] op = "Pop" ->
            LET r == pop(q)
            IN  [q |-> r.q, res |-> Res("nil", r.ok, r.k, r.v, 0)]
      [] op = "Update" ->
            LET r == update(q, k, v)
            IN  [q |-> r.q, res |-> Res(r.err, r.err = "nil", r.key, 0, 0)]
      [] op = "Remove" ->
            [q |-> remove(q, k), res |-> Res("nil", TRUE, 0, 0, 0)]
      [] op = "Peek" ->
            [q |-> q, res |-> Res("nil", peek(q).ok, peek(q).k, peek(q).v, 0)]
      [] op = "PeekKey" ->
            [q |-> q, res |-> Res("nil", peekKey(q).ok, peekKey(q).k, 0, 0)]
      [] op = "PeekValue" ->
            [q |-> q, res |-> Res("nil", peekValue(q).ok, 0, peekValue(q).v, 0)]
      [] op = "Contains" ->
            [q |-> q, res |-> Res("nil", contains(q, k), 0, 0, 0)]
      [] op = "ValueOf" ->
            [q |-> q, res |-> Res("nil", valueOf(q, k).ok, 0, valueOf(q, k).v, 0)]
      [] op = "Len" ->
            [q |-> q, res |-> Res("nil", TRUE, 0, 0, Len_(q))]
      [] op = "IsEmpty" ->
            [q |-> q, res |-> Res("nil", isEmpty(q), 0, 0, 0)]

\* The arguments a method takes: the others are left zero.
ArgK(op) == IF op \in {"Push", "Update", "Remove", "Contains", "ValueOf"} THEN CKeys ELSE {0}

ArgV(op) == IF op \in {"Push", "Update"} THEN CVals ELSE {0}

\* The first statement of a method after its lock call.
Entry(op) ==
    CASE op = "Push"   -> "push"
      [] op = "Pop"    -> "pop"
      [] op = "Update" -> "update"
      [] op = "Remove" -> "remove"
      [] OTHER         -> "read"

InitConc ==
    /\ NewKeyedPriorityQueue("lt")
    /\ last = Idle
    /\ phase = "api"
    /\ pushed = {}
    /\ out = << >>
    /\ mu = [w |-> 0, pend |-> 0, r |-> {}]
    /\ th = [t \in Threads |-> IdleThread]
    /\ abs = [pm |-> Empty, im |-> Empty, vals |-> Empty, cmp |-> "lt"]
    /\ moved = [swim |-> FALSE, sink |-> FALSE]

Rest == <<cmp, last, phase, pushed, out, moved>>

Local(t, rec) == th' = [th EXCEPT ![t] = rec]

\* Thread t calls a method that starts with Lock or with RLock.
Invoke(t) ==
    /\ th[t].pc = "idle"
    /\ \E m \in {"Lock", "RLock"} :
        Local(t, [th[t] EXCEPT !.pc = "lock", !.mode = m])
    /\ UNCHANGED <<pm, im, vals, mu, abs>>
    /\ UNCHANGED Rest

\* The method of t starts: the atomic queue executes the call.
Start(t, m) ==
    \E op \in {o \in Methods : Locks(o) = m} :
        \E k \in ArgK(op), v \in ArgV(op) :
            LET a == Atomic(abs, op, k, v)
            IN  /\ abs' = a.q
                /\ Local(t, [th[t] EXCEPT !.pc = Entry(op), !.op = op,
                                          !.k = k, !.v = v, !.want = a.res])

LockAnnounce(t) ==
    /\ th[t].pc = "lock"
    /\ th[t].mode = "Lock"
    /\ CanAnnounce(mu)
    /\ mu' = [mu EXCEPT !.pend = t]
    /\ Local(t, [th[t] EXCEPT !.pc = "lockwait"])
    /\ UNCHANGED <<pm, im, vals, abs>>
    /\ UNCHANGED Rest

LockAcquire(t) ==
    /\ th[t].pc = "lockwait"
    /\ CanLock(mu)
    /\ mu' = [mu EXCEPT !.w = t, !.pend = 0]
    /\ Start(t, "Lock")
    /\ UNCHANGED <<pm, im, vals>>
    /\ UNCHANGED Rest

RLockAcquire(t) ==
    /\ th[t].pc = "lock"
    /\ th[t].mode = "RLock"
    /\ CanRLock(mu)
    /\ mu' = [mu EXCEPT !.r = @ \cup {t}]
    /\ Start(t, "RLock")
    /\ UNCHANGED <<pm, im, vals>>
    /\ UNCHANGED Rest

\* A read method: its body is one statement.
Read(t) ==
    /\ th[t].pc = "read"
    /\ Local(t, [th[t] EXCEPT !.pc = "return",
                              !.ret = Atomic(Queue, th[t].op, th[t].k, th[t].v).res])
    /\ UNCHANGED <<pm, im, vals, mu, abs>>
    /\ UNCHANGED Rest

PushCheck(t) ==
    /\ th[t].pc = "push"
    /\ IF th[t].k \in DOMAIN im
       THEN Local(t, [th[t] EXCEPT !.pc = "return",
                        !.ret = Res("KeyAlreadyExistsError", FALSE, th[t].k, 0, 0)])
       ELSE Local(t, [th[t] EXCEPT !.pc = "push_append", !.n = len(pm)])
    /\ UNCHANGED <<pm, im, vals, mu, abs>>
    /\ UNCHANGED Rest

PushAppend(t) ==
    /\ th[t].pc = "push_append"
    /\ pm' = Append0(pm, th[t].k)
    /\ Local(t, [th[t] EXCEPT !.pc = "push_im"])
    /\ UNCHANGED <<im, vals, mu, abs>>
    /\ UNCHANGED Rest

PushIm(t) ==
    /\ th[t].pc = "push_im"
    /\ im' = MapSet(im, th[t].k, th[t].n)
    /\ Local(t, [th[t] EXCEPT !.pc = "push_vals"])
    /\ UNCHANGED <<pm, vals, mu, abs>>
    /\ UNCHANGED Rest

PushVals(t) ==
    /\ th[t].pc = "push_vals"
    /\ vals' = MapSet(vals, th[t].k, th[t].v)
    /\ Local(t, [th[t] EXCEPT !.pc = "swim", !.j = th[t].n])
    /\ UNCHANGED <<pm, im, mu, abs>>
    /\ UNCHANGED Rest

\* One turn of the loop of swim, or its end.
SwimStep(t) ==
    /\ th[t].pc = "swim"
    /\ LET j == th[t].j
       IN  IF j > 0 /\ compare(Queue, j, parent(j))
           THEN /\ pm' = swap(Queue, j, parent(j)).pm
                /\ im' = swap(Queue, j, parent(j)).im
                /\ Local(t, [th[t] EXCEPT !.j = parent(j)])
           ELSE /\ UNCHANGED <<pm, im>>
                /\ Local(t, CASE th[t].op = "Push" ->
                                   [th[t] EXCEPT !.pc = "return",
                                                 !.ret = Res("nil", TRUE, 0, 0, 0)]
                              [] th[t].op = "Update" ->
                                   [th[t] EXCEPT !.pc = "sink", !.j = th[t].i,
                                                 !.n = len(vals)]
                              [] th[t].op = "Remove" ->
                                   [th[t] EXCEPT !.pc = "trunc"])
    /\ UNCHANGED <<vals, mu, abs>>
    /\ UNCHANGED Rest

\* One turn of the loop of sink, or its end.
SinkStep(t) ==
    /\ th[t].pc = "sink"
    /\ LET i == th[t].j
           n == th[t].n
           l == leftChild(i)
           r == l + 1
           c == IF r < n /\ compare(Queue, r, l) THEN r ELSE l
       IN  IF leftChild(i) < n /\ ~(l < 0) /\ compare(Queue, c, i)
           THEN /\ pm' = swap(Queue, i, c).pm
                /\ im' = swap(Queue, i, c).im
                /\ Local(t, [th[t] EXCEPT !.j = c])
           ELSE /\ UNCHANGED <<pm, im>>
                /\ Local(t, CASE th[t].op = "Pop" ->
                                   [th[t] EXCEPT !.pc = "trunc"]
                              [] th[t].op = "Update" ->
                                   [th[t] EXCEPT !.pc = "return",
                                                 !.ret = Res("nil", TRUE, 0, 0, 0)]
                              [] th[t].op = "Remove" ->
                                   [th[t] EXCEPT !.pc = "swim", !.j = th[t].i])
    /\ UNCHANGED <<vals, mu, abs>>
    /\ UNCHANGED Rest

PopCheck(t) ==
    /\ th[t].pc = "pop"
    /\ IF len(pm) = 0
       THEN Local(t, [th[t] EXCEPT !.pc = "return", !.ret = Res("nil", FALSE, 0, 0, 0)])
       ELSE Local(t, [th[t] EXCEPT !.pc = "pop_swap", !.n = len(pm) - 1,
                                   !.k = pm[0], !.v = vals[pm[0]]])
    /\ UNCHANGED <<pm, im, vals, mu, abs>>
    /\ UNCHANGED Rest

PopSwap(t) ==
    /\ th[t].pc = "pop_swap"
    /\ pm' = swap(Queue, 0, th[t].n).pm
    /\ im' = swap(Queue, 0, th[t].n).im
    /\ Local(t, [th[t] EXCEPT !.pc = "sink", !.j = 0])
    /\ UNCHANGED <<vals, mu, abs>>
    /\ UNCHANGED Rest

UpdateCheck(t) ==
    /\ th[t].pc = "update"
    /\ IF th[t].k \notin DOMAIN im
       THEN Local(t, [th[t] EXCEPT !.pc = "return",
                        !.ret = Res("KeyNotFoundError", FALSE, th[t].k, 0, 0)])
       ELSE Local(t, [th[t] EXCEPT !.pc = "update_vals", !.i = im[th[t].k]])
    /\ UNCHANGED <<pm, im, vals, mu, abs>>
    /\ UNCHANGED Rest

UpdateVals(t) ==
    /\ th[t].pc = "update_vals"
    /\ vals' = MapSet(vals, th[t].k, th[t].v)
    /\ Local(t, [th[t] EXCEPT !.pc = "swim", !.j = th[t].i])
    /\ UNCHANGED <<pm, im, mu, abs>>
    /\ UNCHANGED Rest

RemoveCheck(t) ==
    /\ th[t].pc = "remove"
    /\ IF th[t].k \notin DOMAIN im
       THEN Local(t, [th[t] EXCEPT !.pc = "return", !.ret = Res("nil", TRUE, 0, 0, 0)])
       ELSE Local(t, [th[t] EXCEPT !.i = im[th[t].k], !.n = len(pm) - 1,
                        !.pc = IF im[th[t].k] # len(pm) - 1 THEN "remove_swap" ELSE "trunc"])
    /\ UNCHANGED <<pm, im, vals, mu, abs>>
    /\ UNCHANGED Rest

RemoveSwap(t) ==
    /\ th[t].pc = "remove_swap"
    /\ pm' = swap(Queue, th[t].i, th[t].n).pm
    /\ im' = swap(Queue, th[t].i, th[t].n).im
    /\ Local(t, [th[t] EXCEPT !.pc = "sink", !.j = th[t].i])
    /\ UNCHANGED <<vals, mu, abs>>
    /\ UNCHANGED Rest

\* The end of Pop and of Remove: pq.pm = pq.pm[:n] and the two deletes.
Trunc(t) ==
    /\ th[t].pc = "trunc"
    /\ pm' = Truncate(pm, th[t].n)
    /\ Local(t, [th[t] EXCEPT !.pc = "delete_im"])
    /\ UNCHANGED <<im, vals, mu, abs>>
    /\ UNCHANGED Rest

DeleteIm(t) ==
    /\ th[t].pc = "delete_im"
    /\ im' = MapDelete(im, th[t].k)
    /\ Local(t, [th[t] EXCEPT !.pc = "delete_vals"])
    /\ UNCHANGED <<pm, vals, mu, abs>>
    /\ UNCHANGED Rest

\* DeleteVals that leaves the value in vals.
DeleteVals_skip(t) ==
    /\ th[t].pc = "delete_vals"
    /\ Local(t, [th[t] EXCEPT !.pc = "return",
                    !.ret = IF th[t].op = "Pop"
                            THEN Res("nil", TRUE, th[t].k, th[t].v, 0)
                            ELSE Res("nil", TRUE, 0, 0, 0)])
    /\ UNCHANGED <<pm, im, vals, mu, abs>>
    /\ UNCHANGED Rest

DeleteVals(t) ==
    /\ th[t].pc = "delete_vals"
    /\ vals' = MapDelete(vals, th[t].k)
    /\ Local(t, [th[t] EXCEPT !.pc = "return",
                    !.ret = IF th[t].op = "Pop"
                            THEN Res("nil", TRUE, th[t].k, th[t].v, 0)
                            ELSE Res("nil", TRUE, 0, 0, 0)])
    /\ UNCHANGED <<pm, im, mu, abs>>
    /\ UNCHANGED Rest

\* The method returns: its deferred call releases the lock.
ReturnUnlock(t) ==
    /\ th[t].pc = "return"
    /\ mu' = CASE DeferredCall(th[t].op) = "Unlock"  -> [mu EXCEPT !.w = 0]
               [] DeferredCall(th[t].op) = "RUnlock" -> [mu EXCEPT !.r = @ \ {t}]
               [] OTHER -> mu
    /\ Local(t, IdleThread)
    /\ UNCHANGED <<pm, im, vals, abs>>
    /\ UNCHANGED Rest

\* The steps of t inside a method, the lock calls apart.
Step(t) ==
    \/ Read(t)
    \/ PushCheck(t)
    \/ PushAppend(t)
    \/ PushIm(t)
    \/ PushVals(t)
    \/ SwimStep(t)
    \/ SinkStep(t)
    \/ PopCheck(t)
    \/ PopSwap(t)
    \/ UpdateCheck(t)
    \/ UpdateVals(t)
    \/ RemoveCheck(t)
    \/ RemoveSwap(t)
    \/ Trunc(t)
    \/ DeleteIm(t)
    \/ DeleteVals(t)
    \/ ReturnUnlock(t)

NextConc ==
    \E t \in Threads :
        \/ Invoke(t)
        \/ LockAnnounce(t)
        \/ LockAcquire(t)
        \/ RLockAcquire(t)
        \/ Step(t)

SpecConc == InitConc /\ [][NextConc]_vars

\* Fair scheduling: a thread that can take a step of its method takes it,
\* and a thread whose lock call can return again and again gets the lock.
FairConc ==
    \A t \in Threads :
        /\ WF_vars(Step(t))
        /\ WF_vars(LockAcquire(t))
        /\ SF_vars(LockAnnounce(t))
        /\ SF_vars(RLockAcquire(t))

SpecConcFair == InitConc /\ [][NextConc]_vars /\ FairConc

----------------------------------------------------------------------------
\* Properties

\* After the call recorded in last, the queue is what it was before the call.
Unchanged == pm = last.pre.pm /\ im = last.pre.im /\ vals = last.pre.vals

\* v is an extreme value of the queue: no stored value has priority over it.
Extreme(v) == \A k2 \in DOMAIN vals : ~CmpFunc(cmp, vals[k2], v)

\* Every key of the queue before the call, but k, is still there with its value.
OthersKept(k) ==
    \A k2 \in (DOMAIN last.pre.vals) \ {k} :
        /\ contains(Queue, k2)
        /\ valueOf(Queue, k2) = [v |-> last.pre.vals[k2], ok |-> TRUE]

\* C1. Heap property: in every state reached by Push, Pop, Update and Remove
\* calls, successful or failing, no slot i > 0 holds a value that has
\* priority over the value in slot parent(i).
C1_HeapProperty ==
    \A i \in DOMAIN pm :
        (0 < i /\ i < len(pm)) => ~CmpFunc(cmp, vals[pm[i]], vals[pm[parent(i)]])

\* A heap of two levels below the root that an Update or a Remove rearranged.
C1_Witness ==
    /\ last.op \in {"Update", "Remove"}
    /\ len(pm) >= 4
    /\ pm # Truncate(last.pre.pm, len(pm))
    /\ \E i \in DOMAIN pm : i > 0 /\ CmpFunc(cmp, vals[pm[parent(i)]], vals[pm[i]])

\* C2. Bijection property: pm, im and vals describe the same key set: they
\* have the same length, the keys of pm are the keys of im and of vals, pm
\* holds no key twice, pm[im[k]] = k for every key and im[pm[i]] = i for
\* every slot.
C2_Bijection ==
    /\ len(pm) = len(im)
    /\ len(im) = len(vals)
    /\ DOMAIN pm = 0..(len(pm) - 1)
    /\ {pm[i] : i \in DOMAIN pm} = DOMAIN im
    /\ DOMAIN im = DOMAIN vals
    /\ \A i, j \in DOMAIN pm : pm[i] = pm[j] => i = j
    /\ \A k \in DOMAIN im : im[k] \in DOMAIN pm /\ pm[im[k]] = k
    /\ \A i \in DOMAIN pm : im[pm[i]] = i

\* A Remove of a key that was not in the last slot, or a Pop, of a queue of
\* at least three keys: the slots were swapped.
C2_Witness ==
    /\ last.op \in {"Remove", "Pop"}
    /\ len(last.pre.pm) >= 3
    /\ len(pm) = len(last.pre.pm) - 1
    /\ pm # Truncate(last.pre.pm, len(pm))

\* C3. On a non-empty queue Peek returns (k, v, true) with k present, v the
\* value of k and no stored value having priority over v; PeekKey returns
\* that k and PeekValue that v; none of them changes the queue.
C3_PeekExtreme ==
    /\ (last.op = "Peek" /\ len(last.pre.pm) > 0) =>
          /\ last.ok
          /\ last.rk \in DOMAIN vals
          /\ last.rv = vals[last.rk]
          /\ Extreme(last.rv)
          /\ Unchanged
    /\ (last.op = "PeekKey" /\ len(last.pre.pm) > 0) =>
          /\ last.ok
          /\ last.rk = peek(Queue).k
          /\ last.rk \in DOMAIN vals
          /\ Extreme(vals[last.rk])
          /\ Unchanged
    /\ (last.op = "PeekValue" /\ len(last.pre.pm) > 0) =>
          /\ last.ok
          /\ last.rv = peek(Queue).v
          /\ Extreme(last.rv)
          /\ Unchanged

\* A Peek on a full queue whose root is strictly better than another entry.
C3_Witness ==
    /\ last.op = "Peek"
    /\ len(pm) = MaxKey
    /\ last.ok
    /\ \E k2 \in DOMAIN vals : CmpFunc(cmp, last.rv, vals[k2])

\* C4. Pop on a non-empty queue returns the pair Peek would have returned
\* just before; afterwards the key is absent, Len is one less and every
\* other key is still present with its value.
C4_Pop ==
    (last.op = "Pop" /\ len(last.pre.pm) > 0) =>
        /\ last.ok
        /\ last.rk = peek(last.pre).k
        /\ last.rv = peek(last.pre).v
        /\ ~contains(Queue, last.rk)
        /\ ~valueOf(Queue, last.rk).ok
        /\ Len_(Queue) = Len_(last.pre) - 1
        /\ DOMAIN vals = (DOMAIN last.pre.vals) \ {last.rk}
        /\ OthersKept(last.rk)

\* A Pop of a full queue.
C4_Witness ==
    /\ last.op = "Pop"
    /\ last.ok
    /\ len(last.pre.pm) = MaxKey
    /\ len(pm) = MaxKey - 1

\* C5. Extraction order: the pairs popped come in strictly sorted order,
\* each popped value having priority over the next; every pair pushed is
\* either still in the queue or popped, exactly once; and Pop reports an
\* empty queue exactly after all the pairs pushed have been popped.
C5_ExtractionOrder ==
    /\ \A i \in 1..(Len(out) - 1) : CmpFunc(cmp, out[i][2], out[i + 1][2])
    /\ {out[i] : i \in 1..Len(out)} \cup {<<k, vals[k]>> : k \in DOMAIN vals} = pushed
    /\ Len(out) + Len_(Queue) = Cardinality(pushed)
    /\ phase = "done" =>
          /\ last.op = "Pop" /\ ~last.ok
          /\ Len(out) = Cardinality(pushed)
          /\ {out[i] : i \in 1..Len(out)} = pushed
          /\ Len_(Queue) = 0
    /\ (phase = "pop" /\ Len(out) = Cardinality(pushed)) => ~pop(Queue).ok

\* As many pairs as there are keys were pushed and all of them
\* popped; the Pop after them found the queue empty.
C5_Witness ==
    /\ phase = "done"
    /\ Len(out) = MaxKey
    /\ ~last.ok

\* C6. Push(k, v) with k absent returns nil; afterwards Contains(k) is true,
\* ValueOf(k) is (v, true), Len is one more and every key that was present
\* is still present with its value.
C6_PushNew ==
    (last.op = "Push" /\ ~contains(last.pre, last.k)) =>
        /\ last.err = "nil"
        /\ contains(Queue, last.k)
        /\ valueOf(Queue, last.k) = [v |-> last.v, ok |-> TRUE]
        /\ Len_(Queue) = Len_(last.pre) + 1
        /\ OthersKept(last.k)

\* A Push of a new key that swam above the slot it was appended to.
C6_Witness ==
    /\ last.op = "Push"
    /\ last.err = "nil"
    /\ len(pm) >= 3
    /\ pm[len(pm) - 1] # last.k

\* C7. No duplicate insert: Push(k, v) with k present returns a
\* KeyAlreadyExistsError carrying k and leaves pm, im and vals as they were:
\* Len is unchanged and ValueOf(k) is still the value stored before.
C7_PushDuplicate ==
    (last.op = "Push" /\ contains(last.pre, last.k)) =>
        /\ last.err = "KeyAlreadyExistsError"
        /\ last.rk = last.k
        /\ Unchanged
        /\ Len_(Queue) = Len_(last.pre)
        /\ valueOf(Queue, last.k) = [v |-> last.pre.vals[last.k], ok |-> TRUE]

\* A Push of a key that is present, with a value other than the stored one.
C7_Witness ==
    /\ last.op = "Push"
    /\ last.err = "KeyAlreadyExistsError"
    /\ last.k \in DOMAIN vals
    /\ vals[last.k] # last.v

\* C8. Update(k, v) with k absent returns a KeyNotFoundError and leaves pm,
\* im and vals as they were: k is not inserted and Len is unchanged.
C8_UpdateAbsent ==
    (last.op = "Update" /\ ~contains(last.pre, last.k)) =>
        /\ last.err = "KeyNotFoundError"
        /\ Unchanged
        /\ ~contains(Queue, last.k)
        /\ ~valueOf(Queue, last.k).ok
        /\ Len_(Queue) = Len_(last.pre)

\* An Update of an absent key on a non-empty queue.
C8_Witness ==
    /\ last.op = "Update"
    /\ last.err = "KeyNotFoundError"
    /\ len(pm) > 0
    /\ last.k \notin DOMAIN im

\* C9. Update(k, v) with k present returns nil; afterwards ValueOf(k) is
\* (v, true), the key set and Len are unchanged and every other key keeps
\* its value.
C9_UpdatePresent ==
    (last.op = "Update" /\ contains(last.pre, last.k)) =>
        /\ last.err = "nil"
        /\ valueOf(Queue, last.k) = [v |-> last.v, ok |-> TRUE]
        /\ DOMAIN vals = DOMAIN last.pre.vals
        /\ DOMAIN im = DOMAIN last.pre.im
        /\ {pm[i] : i \in DOMAIN pm} = {last.pre.pm[i] : i \in DOMAIN last.pre.pm}
        /\ Len_(Queue) = Len_(last.pre)
        /\ OthersKept(last.k)

\* An Update that changed the value of a key and permuted the slots.
C9_Witness ==
    /\ last.op = "Update"
    /\ last.err = "nil"
    /\ last.pre.vals[last.k] # last.v
    /\ pm # last.pre.pm

\* After a successful Update, Peek returns an extreme element.
UpdateExtreme ==
    /\ peek(Queue).ok
    /\ peek(Queue).k \in DOMAIN vals
    /\ peek(Queue).v = vals[peek(Queue).k]
    /\ Extreme(peek(Queue).v)

\* After a successful Update(k, v) where v has priority over every other
\* stored value, Peek returns (k, v).
UpdateBest ==
    (\A k2 \in (DOMAIN vals) \ {last.k} : CmpFunc(cmp, last.v, vals[k2])) =>
        (peek(Queue).k = last.k /\ peek(Queue).v = last.v)

\* C10, as stated.  After a successful Update(k, v) Peek returns an extreme
\* element; if v has priority over every other stored value Peek returns
\* (k, v); and if k was the top and v does not have priority over some other
\* stored value, Peek returns a different key.
C10_AsStated ==
    (last.op = "Update" /\ last.err = "nil") =>
        /\ UpdateExtreme
        /\ UpdateBest
        /\ (/\ last.pre.pm[0] = last.k
            /\ \E k2 \in (DOMAIN vals) \ {last.k} :
                   ~CmpFunc(cmp, last.v, vals[k2]))
           => peek(Queue).k # last.k

\* C10, amended.  As above, but Peek returns a different key when k was the
\* top and some other stored value has priority over v; when v only ties
\* with the best of the others, k may stay on top.
C10_UpdateReorders ==
    (last.op = "Update" /\ last.err = "nil") =>
        /\ UpdateExtreme
        /\ UpdateBest
        /\ (/\ last.pre.pm[0] = last.k
            /\ \E k2 \in (DOMAIN vals) \ {last.k} :
                   CmpFunc(cmp, vals[k2], last.v))
           => (peek(Queue).k # last.k /\ Extreme(peek(Queue).v))

\* An Update that made the top key worse than another key of a full queue.
C10_Witness ==
    /\ last.op = "Update"
    /\ last.err = "nil"
    /\ len(pm) = MaxKey
    /\ last.pre.pm[0] = last.k
    /\ \E k2 \in (DOMAIN vals) \ {last.k} : CmpFunc(cmp, vals[k2], last.v)
    /\ pm[0] # last.k

\* C11. Remove(k) with k present at any slot evicts exactly k: afterwards
\* Contains(k) is false and ValueOf(k) reports ok = false, Len is one less,
\* every other key is still present with its value, and Peek returns an
\* extreme element of what remains.
C11_Remove ==
    (last.op = "Remove" /\ contains(last.pre, last.k)) =>
        /\ ~contains(Queue, last.k)
        /\ ~valueOf(Queue, last.k).ok
        /\ Len_(Queue) = Len_(last.pre) - 1
        /\ DOMAIN vals = (DOMAIN last.pre.vals) \ {last.k}
        /\ DOMAIN im = (DOMAIN last.pre.im) \ {last.k}
        /\ {pm[i] : i \in DOMAIN pm} = DOMAIN im
        /\ OthersKept(last.k)
        /\ Len_(Queue) > 0 =>
              /\ peek(Queue).ok
              /\ peek(Queue).k \in DOMAIN vals
              /\ peek(Queue).v = vals[peek(Queue).k]
              /\ Extreme(peek(Queue).v)

\* A Remove of the root of a heap of MaxHeap entries, after which the entry
\* moved into the root sank.
C11_Witness ==
    /\ last.op = "Remove"
    /\ len(last.pre.pm) = MaxHeap
    /\ last.pre.pm[0] = last.k
    /\ moved.sink
    /\ len(pm) = MaxHeap - 1

\* C12. Idempotent absent-removal: Remove(k) with k absent reports no error
\* and leaves pm, im and vals as they were, so Len and the result of Peek
\* are unchanged.
C12_RemoveAbsent ==
    (last.op = "Remove" /\ ~contains(last.pre, last.k)) =>
        /\ last.err = "nil"
        /\ Unchanged
        /\ Len_(Queue) = Len_(last.pre)
        /\ peek(Queue) = peek(last.pre)

\* A Remove of an absent key on a queue of at least two keys.
C12_Witness ==
    /\ last.op = "Remove"
    /\ last.k \notin DOMAIN last.pre.im
    /\ len(pm) >= 2

\* C13. Empty-queue signaling: Peek, PeekKey, PeekValue and Pop report
\* ok = false and no error exactly when the queue holds no entry, and ok =
\* true otherwise; Pop on an empty queue leaves it empty and unchanged.
C13_EmptySignal ==
    (last.op \in {"Peek", "PeekKey", "PeekValue", "Pop"}) =>
        /\ last.err = "nil"
        /\ last.ok <=> (len(last.pre.pm) > 0)
        /\ (len(last.pre.pm) = 0) => (Unchanged /\ len(pm) = 0 /\ isEmpty(Queue))

\* A Pop that found the queue empty.
C13_Witness ==
    /\ last.op = "Pop"
    /\ ~last.ok
    /\ len(last.pre.pm) = 0
    /\ len(pm) = 0

\* C19. Only one direction does work: on a heap, in Update (swim then sink)
\* and in Remove of a key that is not in the last slot (swap, sink, then
\* swim), swim and sink do not both swap.
C19_OneDirection ==
    (last.op \in {"Update", "Remove"}) => ~(moved.swim /\ moved.sink)

\* A Remove of an interior key after which the entry moved into its slot
\* swam up.
C19_Witness ==
    /\ last.op = "Remove"
    /\ last.k \in DOMAIN last.pre.im
    /\ last.pre.im[last.k] # len(last.pre.pm) - 1
    /\ moved.swim
    /\ ~moved.sink

\* C18. NewKeyedPriorityQueue(nil) panics and yields no queue: no field is
\* set and no method is ever called; with a comparison function it yields
\* an empty queue ordered by that function (Len 0, IsEmpty true).
C18_NilPanics ==
    /\ (last.op = "New" /\ last.k = "nil") =>
          (phase = "panic" /\ last.err = "panic" /\ cmp = "nil")
    /\ (phase = "panic") =>
          (last.op = "New" /\ pm = Empty /\ im = Empty /\ vals = Empty)
    /\ (last.op = "New" /\ last.k # "nil") =>
          /\ phase = "api"
          /\ last.err = "nil"
          /\ cmp = last.k
          /\ Len_(Queue) = 0
          /\ isEmpty(Queue)
          /\ len(im) = 0
          /\ len(vals) = 0

\* The construction with nil has panicked.
C18_Witness ==
    /\ phase = "panic"
    /\ last.op = "New"
    /\ last.k = "nil"

\* C20. Key-set correctness does not depend on the comparator: when cmp
\* answers arbitrarily, in every state pm, im and vals still describe one
\* key set, that set is the keys successfully pushed and not popped or
\* removed since, each key has the last value pushed or updated for it, and
\* no slot outside pm was indexed.
C20_KeySetAnyCmp ==
    /\ phase # "panic"
    /\ vals = abs.vals
    /\ len(pm) = len(im)
    /\ DOMAIN pm = 0..(len(pm) - 1)
    /\ DOMAIN im = DOMAIN vals
    /\ {pm[i] : i \in DOMAIN pm} = DOMAIN im
    /\ \A k \in DOMAIN im : im[k] \in DOMAIN pm /\ pm[im[k]] = k
    /\ \A i \in DOMAIN pm : im[pm[i]] = i
    /\ \A k \in Keys :
          /\ contains(Queue, k) <=> k \in DOMAIN abs.vals
          /\ k \in DOMAIN abs.vals => valueOf(Queue, k) = [v |-> abs.vals[k], ok |-> TRUE]

\* A full queue whose slots are in no heap order: the largest value is at
\* the root and at the last slot of a queue cmp answered arbitrarily on.
C20_Witness ==
    /\ cmp = "any"
    /\ len(pm) = MaxKey
    /\ vals[pm[0]] = MaxVal
    /\ vals[pm[1]] = 1
    /\ vals[pm[MaxKey - 1]] = MaxVal

----------------------------------------------------------------------------
\* Concurrent callers

Mutating == {"Push", "Pop", "Update", "Remove"}

\* Thread t is inside the critical section of its method.
Inside(t) == th[t].pc \notin {"idle", "lock", "lockwait"}

HoldsNothing(t) == mu.w # t /\ mu.pend # t /\ t \notin mu.r

\* C14: two threads are never inside their critical sections together when
\* one of them runs Push, Pop, Update or Remove: a mutating method excludes
\* every other method, and only read methods are inside together.
C14_MutualExclusion ==
    \A t, u \in Threads :
        (t # u /\ Inside(t) /\ Inside(u)) =>
            (th[t].op \notin Mutating /\ th[u].op \notin Mutating)

\* Two read methods are inside their critical sections together.
C14_Witness ==
    \E t, u \in Threads :
        /\ t # u
        /\ Inside(t) /\ Inside(u)
        /\ th[t].op \notin Mutating /\ th[u].op \notin Mutating

\* C15: every call returns the results the atomic queue gave when it
\* executed the call in one step, at a moment between the call and its
\* return, and whenever no mutating method is running the content of the
\* queue is the content of the atomic queue.
C15_Serialized ==
    /\ \A t \in Threads : (th[t].pc = "return") => (th[t].ret = th[t].want)
    /\ (\A t \in Threads : ~(Inside(t) /\ th[t].op \in Mutating)) =>
            (pm = abs.pm /\ im = abs.im /\ vals = abs.vals)

\* A Pop returns an entry while the call of another thread, which began
\* before the Pop returned, waits for the lock.
C15_Witness ==
    \E t, u \in Threads :
        /\ t # u
        /\ th[t].pc = "return" /\ th[t].op = "Pop" /\ th[t].ret.ok
        /\ th[u].pc \in {"lock", "lockwait"}

\* C16: the heap property and the bijection between pm, im and vals hold in
\* every state where no writer holds the lock, and in every state where a
\* read method is inside its critical section.
C16_NoTornState ==
    ((mu.w = 0) \/ (\E t \in Threads : Inside(t) /\ th[t].op \notin Mutating)) =>
        (C1_HeapProperty /\ C2_Bijection)

\* A writer holds the lock, the bijection is broken, and a reader waits.
C16_Witness ==
    /\ mu.w # 0
    /\ ~C2_Bijection
    /\ \E t \in Threads : th[t].pc = "lock" /\ th[t].mode = "RLock"

\* Some thread inside a call can take a step.
Progress ==
    \E t \in Threads :
        LockAnnounce(t) \/ LockAcquire(t) \/ RLockAcquire(t) \/ Step(t)

\* C17: a thread that is in no method holds no lock, whenever a call is in
\* progress some thread in a call can take a step, and under fair scheduling
\* every call returns.
C17_Completion ==
    /\ [](\A t \in Threads : (th[t].pc \in {"idle", "lock"}) => HoldsNothing(t))
    /\ []((\E t \in Threads : th[t].pc # "idle") => ENABLED Progress)
    /\ \A t \in Threads : (th[t].pc # "idle") ~> (th[t].pc = "idle")

\* A Push returns by the duplicate-key path while another thread waits for
\* the lock.
C17_Witness ==
    \E t, u \in Threads :
        /\ t # u
        /\ th[t].pc = "return" /\ th[t].ret.err = "KeyAlreadyExistsError"
        /\ th[u].pc \in {"lock", "lockwait"}

----------------------------------------------------------------------------
\* Machine integers

\* 2i + 1 does not fit an int.
Wraps(i) == 2 * i + 1 > MaxInt

\* C21: in every turn of the loop of sink at a slot i whose 2i + 1 wraps
\* around, leftChild(i) is negative and the loop stops there: the turn
\* indexes pm at no child slot and swaps nothing.  In every turn at a slot i
\* whose 2i + 1 does not wrap, leftChild(i) is 2i + 1 and the child slots
\* the turn indexes are exactly those of 2i + 1 and 2i + 2 that are below
\* the bound n.  No turn indexes pm outside its slots.
C21_OverflowGuard ==
    /\ phase # "panic"
    /\ \A t \in 1..Len(out) :
        LET u == out[t]
            c == 2 * u.i + 1
        IN  IF Wraps(u.i)
            THEN /\ u.l < 0
                 /\ u.kids = {}
                 /\ u.to = u.i
                 /\ t = Len(out)
            ELSE /\ u.l = c
                 /\ u.kids = {s \in {c, c + 1} : s < u.n}
                 /\ u.to \in u.kids \cup {u.i}

\* An Update sank an entry by a swap with a child, to a slot whose 2i + 1
\* wraps around, with a bound n above that slot.
C21_Witness ==
    /\ last.op = "Update"
    /\ Len(out) >= 2
    /\ out[1].to # out[1].i
    /\ Wraps(out[Len(out)].i)
    /\ out[Len(out)].i < out[Len(out)].n

====
